---- MODULE Spec2Model ----
(***************************************************************************)
(* Allure -> Test IT importer (allure2testit-cli.ts and the hosted-task    *)
(* variant printed in README.md).  One invocation of main is modelled as a *)
(* sequence of steps, one step per awaited remote call together with all   *)
(* the local computation that follows it up to the next remote call.       *)
(***************************************************************************)
EXTENDS Integers, Sequences, FiniteSets, TLC

\* ------------------------------------------------------------- bounds ----
MaxFiles == 2        \* *-result.json files in the input directory
MaxStart == 2        \* largest epoch value of start / stop
MaxNodes == 2        \* step nodes in one record's step forest
MaxAttach == 3       \* descriptors in one top-level attachment list
MaxInvocations == 2  \* sequential invocations of main on the same input

\* ------------------------------------------------------ JS primitives ----
\* An optional value (number | undefined, string | undefined) is a sequence
\* of length at most one: <<>> is undefined, <<v>> is the value v.
Absent == <<>>
Some(v) == <<v>>

\* it.start ?? 0
OrZero(x) == IF x = Absent THEN 0 ELSE x[1]

\* truthiness of an optional number: undefined and 0 are falsy
TruthyNum(x) == x # Absent /\ x[1] # 0

\* truthiness of a step name: the empty string is falsy
TruthyName(n) == n # ""

RECURSIVE SeqsUpTo(_, _)
SeqsUpTo(S, n) ==
    IF n = 0 THEN {<<>>}
    ELSE LET shorter == SeqsUpTo(S, n - 1)
         IN  shorter \cup {Append(q, x) : q \in {p \in shorter : Len(p) = n - 1}, x \in S}

RECURSIVE Perms(_)
Perms(S) ==
    IF S = {} THEN {<<>>}
    ELSE UNION {{<<x>> \o p : p \in Perms(S \ {x})} : x \in S}

RECURSIVE SumSeq(_)
SumSeq(q) == IF q = <<>> THEN 0 ELSE Head(q) + SumSeq(Tail(q))

\* --------------------------------------------------------- input data ----
Variants == {"cli", "task"}

\* the attachment files under inputDir and what fs finds there
Sources == {"missing.png", "empty.txt", "shot.png", "log.txt"}
Disk == [s \in Sources |->
            CASE s = "missing.png" -> "missing"
              [] s = "empty.txt"   -> "empty"
              [] OTHER             -> "data"]

Descriptor(s) == [source |-> s]

OptNums == {Absent} \cup {Some(n) : n \in 0..MaxStart}
StatusStrings == {"passed", "skipped", "failed", "broken", "weird-string"}
OptStatuses == {Absent} \cup {Some(s) : s \in StatusStrings}

\* historyId strings; "9" and "10" are canonical array indices
HistoryIds == {"a", "b", "9", "10"}
ArrayIndexValue == [h \in {"9", "10"} |-> IF h = "9" THEN 9 ELSE 10]
IsArrayIndex(h) == h \in DOMAIN ArrayIndexValue

\* ------------------------------------------------- status and duration ----
\* allureStatusToOutcome without the status === undefined branch
allureStatusToOutcomeNoBlocked(status) ==
    IF status = Absent THEN "Failed"
    ELSE IF status[1] = "passed" THEN "Passed"
    ELSE IF status[1] = "skipped" THEN "Skipped"
    ELSE "Failed"

allureStatusToOutcome(status) ==
    IF status = Absent THEN "Blocked"
    ELSE IF status[1] = "passed" THEN "Passed"
    ELSE IF status[1] = "skipped" THEN "Skipped"
    ELSE "Failed"

\* Duration clamped at zero
DurationClamped(start, stop) ==
    IF TruthyNum(start) /\ TruthyNum(stop) /\ stop[1] >= start[1]
    THEN stop[1] - start[1] ELSE 0

\* x.start && x.stop ? (x.stop - x.start) : 0
Duration(start, stop) ==
    IF TruthyNum(start) /\ TruthyNum(stop) THEN stop[1] - start[1] ELSE 0

\* ------------------------------------------------- attachment uploader ----
\* AttachDecision without the attachBuffer.length === 0 check
AttachDecisionNoEmptyCheck(v, st) ==
    IF st = "missing" THEN (IF v = "cli" THEN "skip" ELSE "throw") ELSE "upload"

\* Whether the loop body reaches invokeApiAttachementUpload for a file in
\* state st, "skip" (continue), or "throw" (fs.promises.readFile rejects).
AttachDecision(v, st) ==
    IF v = "cli"
    THEN IF st = "missing" THEN "skip"
         ELSE IF st = "empty" THEN "skip"
         ELSE "upload"
    ELSE IF st = "missing" THEN "throw"
         ELSE IF st = "empty" THEN "skip"
         ELSE "upload"

\* One run of uploadAllureAttachments when every upload is answered 200 and
\* the remote hands out the ids id, id+1, ...: the references returned, the
\* upload calls issued (in order), whether the function threw before
\* returning, and the next id of the remote.
RECURSIVE uploadAllureAttachments(_, _, _)
uploadAllureAttachments(v, atts, id) ==
    IF atts = <<>>
    THEN [refs |-> <<>>, calls |-> <<>>, threw |-> FALSE, next |-> id]
    ELSE LET d == AttachDecision(v, Disk[Head(atts).source])
         IN  IF d = "skip" THEN uploadAllureAttachments(v, Tail(atts), id)
             ELSE IF d = "throw"
             THEN [refs |-> <<>>, calls |-> <<>>, threw |-> TRUE, next |-> id]
             ELSE LET r == uploadAllureAttachments(v, Tail(atts), id + 1)
                  IN  [refs  |-> <<[id |-> id]>> \o r.refs,
                       calls |-> <<Head(atts).source>> \o r.calls,
                       threw |-> r.threw,
                       next  |-> r.next]

\* ------------------------------------------------ step tree translator ----
\* SkipStep without the name check
SkipStepNever(s) == FALSE

\* if (!allureStep.name) continue;
SkipStep(s) == ~TruthyName(s.name)

NoSteps(id) ==
    [specs |-> <<>>, results |-> <<>>, calls |-> <<>>, threw |-> FALSE, next |-> id]

Thrown(calls, id) ==
    [specs |-> <<>>, results |-> <<>>, calls |-> calls, threw |-> TRUE, next |-> id]

\* One run of processAllureSteps under the same convention as above.
\* processAllureSteps uploading a step's own attachments before it descends
RECURSIVE processAllureStepsPreOrder(_, _, _)
processAllureStepsPreOrder(v, allureSteps, id) ==
    IF allureSteps = <<>> THEN NoSteps(id)
    ELSE LET s == Head(allureSteps)
         IN  IF SkipStep(s) THEN processAllureStepsPreOrder(v, Tail(allureSteps), id)
             ELSE LET up == uploadAllureAttachments(v, s.attachments, id)
                  IN  IF up.threw THEN Thrown(up.calls, up.next)
                      ELSE LET inner == processAllureStepsPreOrder(v, s.steps, up.next)
                           IN  IF inner.threw THEN Thrown(up.calls \o inner.calls, inner.next)
                               ELSE LET rest == processAllureStepsPreOrder(v, Tail(allureSteps), inner.next)
                                        spec == [title |-> s.name, steps |-> inner.specs]
                                        res  == [title       |-> s.name,
                                                 stepResults |-> inner.results,
                                                 outcome     |-> allureStatusToOutcome(s.status),
                                                 duration    |-> Duration(s.start, s.stop),
                                                 attachments |-> up.refs]
                                    IN  [specs   |-> <<spec>> \o rest.specs,
                                         results |-> <<res>> \o rest.results,
                                         calls   |-> up.calls \o inner.calls \o rest.calls,
                                         threw   |-> rest.threw,
                                         next    |-> rest.next]

RECURSIVE processAllureSteps(_, _, _)
processAllureSteps(v, allureSteps, id) ==
    IF allureSteps = <<>> THEN NoSteps(id)
    ELSE LET s == Head(allureSteps)
         IN  IF SkipStep(s) THEN processAllureSteps(v, Tail(allureSteps), id)
             ELSE LET inner == processAllureSteps(v, s.steps, id)
                  IN  IF inner.threw THEN Thrown(inner.calls, inner.next)
                      ELSE LET up == uploadAllureAttachments(v, s.attachments, inner.next)
                           IN  IF up.threw THEN Thrown(inner.calls \o up.calls, up.next)
                               ELSE LET rest == processAllureSteps(v, Tail(allureSteps), up.next)
                                        spec == [title |-> s.name, steps |-> inner.specs]
                                        res  == [title       |-> s.name,
                                                 stepResults |-> inner.results,
                                                 outcome     |-> allureStatusToOutcome(s.status),
                                                 duration    |-> Duration(s.start, s.stop),
                                                 attachments |-> up.refs]
                                    IN  [specs   |-> <<spec>> \o rest.specs,
                                         results |-> <<res>> \o rest.results,
                                         calls   |-> inner.calls \o up.calls \o rest.calls,
                                         threw   |-> rest.threw,
                                         next    |-> rest.next]

\* ------------------------------------------------------- report loader ----
\* resultFiles.sort((it1, it2) => (it1.start ?? 0) - (it2.start ?? 0))
CompareStart(it1, it2) == OrZero(it1.start) - OrZero(it2.start)

\* InsertSorted putting an element before the elements that compare equal
RECURSIVE InsertSortedUnstable(_, _)
InsertSortedUnstable(sorted, it) ==
    IF sorted = <<>> THEN <<it>>
    ELSE IF CompareStart(Head(sorted), it) >= 0 THEN <<it>> \o sorted
    ELSE <<Head(sorted)>> \o InsertSortedUnstable(Tail(sorted), it)

\* Array.prototype.sort is stable: an element goes after every element that
\* does not compare greater than it.
RECURSIVE InsertSorted(_, _)
InsertSorted(sorted, it) ==
    IF sorted = <<>> THEN <<it>>
    ELSE IF CompareStart(Head(sorted), it) > 0 THEN <<it>> \o sorted
    ELSE <<Head(sorted)>> \o InsertSorted(Tail(sorted), it)

RECURSIVE SortByStart(_)
SortByStart(files) ==
    IF files = <<>> THEN <<>>
    ELSE InsertSorted(SortByStart(SubSeq(files, 1, Len(files) - 1)), files[Len(files)])

\* Own-property order of a JS object: array-index keys in ascending numeric
\* order first, then the other string keys in the order of first insertion.
RECURSIVE InsertIndexKey(_, _)
InsertIndexKey(keys, k) ==
    IF keys = <<>> THEN <<k>>
    ELSE IF IsArrayIndex(Head(keys)) /\ ArrayIndexValue[Head(keys)] < ArrayIndexValue[k]
    THEN <<Head(keys)>> \o InsertIndexKey(Tail(keys), k)
    ELSE <<k>> \o keys

AddKey(keys, k) ==
    IF \E i \in 1..Len(keys) : keys[i] = k THEN keys
    ELSE IF IsArrayIndex(k) THEN InsertIndexKey(keys, k)
    ELSE Append(keys, k)

\* Object.fromEntries(resultFiles.map(it => [it.historyId, it])): the keys in
\* own-property order and the value of each key (the last entry wins).
RECURSIVE ObjectFromEntries(_)
ObjectFromEntries(items) ==
    IF items = <<>> THEN [keys |-> <<>>, val |-> <<>>]
    ELSE LET n    == Len(items)
             prev == ObjectFromEntries(SubSeq(items, 1, n - 1))
             k    == items[n].historyId
         IN  [keys |-> AddKey(prev.keys, k),
              val  |-> [h \in DOMAIN prev.val \cup {k} |->
                            IF h = k THEN items[n] ELSE prev.val[h]]]

\* Object.values(loaded.results)
ObjectValues(obj) == [i \in 1..Len(obj.keys) |-> obj.val[obj.keys[i]]]


\* CLI: existsSync check, per-file try/catch, filter(Boolean), NoResults.
\* Hosted task: readdirSync and JSON.parse throw uncaught; no NoResults.
ParseFailureCaught(v) == v = "cli"
ChecksNoResults(v) == v = "cli"

loadAllureResults(v, exists, entries) ==
    IF ~exists THEN [threw |-> TRUE, error |-> "NotFound", results |-> <<>>]
    ELSE IF ~ParseFailureCaught(v) /\ \E i \in 1..Len(entries) : ~entries[i].parses
    THEN [threw |-> TRUE, error |-> "ParseError", results |-> <<>>]
    ELSE LET resultFiles == SelectSeq(entries, LAMBDA f : f.parses)
         IN  IF ChecksNoResults(v) /\ Len(resultFiles) = 0
             THEN [threw |-> TRUE, error |-> "NoResults", results |-> <<>>]
             ELSE [threw |-> FALSE, error |-> "",
                   results |-> ObjectValues(ObjectFromEntries(SortByStart(resultFiles)))]

\* ------------------------------------------------------- remote calls ----
Statuses == {200, 204, 500}

\* resp.ok
RespOk(status) == status >= 200 /\ status <= 299

\* invokeApi without the apiEnsureStatus check
invokeApiUnchecked(status) == IF status = 204 THEN "null" ELSE "body"

\* apiEnsureStatus + invokeApi: "throw" on a non-2xx status, the null body on
\* 204, the parsed body otherwise.
invokeApi(status) ==
    IF ~RespOk(status) THEN "throw"
    ELSE IF status = 204 THEN "null"
    ELSE "body"

\* invokeApiAttachementUpload: no 204 branch, resp.json() of an empty body
\* rejects.
invokeApiAttachementUpload(status) ==
    IF ~RespOk(status) THEN "throw"
    ELSE IF status = 204 THEN "throw"
    ELSE "body"

\* args.testRunName, and the names of runs the project may hold.  A name is a
\* tuple of words; the remote's name filter matches every run whose name
\* starts with the words searched for.
TestRunName == <<"Nightly">>
OtherRunName == <<"Nightly", "2">>

NameMatches(name, query) ==
    Len(query) <= Len(name) /\ SubSeq(name, 1, Len(query)) = query

MaxId(S) == IF S = {} THEN 0 ELSE CHOOSE m \in {x.id : x \in S} : \A x \in S : x.id <= m

\* FindRun with the remote's own name filter in place of string equality
FindRunByFilter(existing, name) ==
    IF \E i \in 1..Len(existing) : NameMatches(existing[i].name, name)
    THEN CHOOSE i \in 1..Len(existing) :
            /\ NameMatches(existing[i].name, name)
            /\ \A j \in 1..(i - 1) : ~NameMatches(existing[j].name, name)
    ELSE 0

\* existingTestRun.find(run => run.name === args.testRunName): index of the
\* first run of that name, 0 when there is none.
FindRun(existing, name) ==
    IF \E i \in 1..Len(existing) : existing[i].name = name
    THEN CHOOSE i \in 1..Len(existing) :
            /\ existing[i].name = name
            /\ \A j \in 1..(i - 1) : existing[j].name # name
    ELSE 0

\* UpdateKey taking the last match instead of the first
UpdateKeyLast(autotestMatches) == autotestMatches[Len(autotestMatches)].id

\* UsesUpdate that never takes the update branch
UsesUpdateNever(autotestMatches) == FALSE

\* if (autotestMatches.length) ... autotestMatches[0].id
UsesUpdate(autotestMatches) == Len(autotestMatches) > 0
UpdateKey(autotestMatches) == autotestMatches[1].id

\* A logged remote call.  Every call has the same fields; a field a call
\* does not carry keeps its default.  returned is the list a search was
\* answered with (the created run, for a create-run), Absent without a body.
Call(kind) ==
    [kind |-> kind, inv |-> 0, rec |-> 0, ok |-> TRUE,
     runId |-> 0, id |-> 0, externalId |-> "", name |-> <<>>,
     source |-> "", level |-> "",
     steps |-> <<>>, stepResults |-> <<>>, hasResult |-> FALSE,
     duration |-> 0, outcome |-> "", attachments |-> <<>>,
     returned |-> Absent]

UploadCalls(sources, level, r) ==
    [i \in 1..Len(sources) |->
        [Call("upload") EXCEPT !.source = sources[i], !.level = level, !.rec = r]]

ThrowMark == Call("throw")

\* The body of the for loop of runImport after the autotest search, as the
\* remote calls it issues in order when each is answered 2xx; a trailing
\* ThrowMark stands for a local exception that ends the loop there.
RecordPlan(v, testResult, r, autotestMatches, testRunId, id) ==
    LET st    == processAllureSteps(v, testResult.steps, id)
        stepU == UploadCalls(st.calls, "step", r)
        dur   == Duration(testResult.start, testResult.stop)
        out   == allureStatusToOutcome(testResult.status)
        upsert ==
            IF UsesUpdate(autotestMatches)
            THEN [Call("updateAutotest") EXCEPT
                     !.rec = r, !.id = UpdateKey(autotestMatches),
                     !.externalId = testResult.historyId, !.steps = st.specs]
            ELSE [Call("createAutotest") EXCEPT
                     !.rec = r, !.externalId = testResult.historyId,
                     !.steps = st.specs, !.stepResults = st.results,
                     !.hasResult = TRUE, !.duration = dur, !.outcome = out]
        top   == uploadAllureAttachments(v, testResult.attachments, st.next)
        topU  == UploadCalls(top.calls, "top", r)
        append ==
            [Call("appendResult") EXCEPT
                !.rec = r, !.runId = testRunId,
                !.externalId = testResult.historyId,
                !.stepResults = st.results, !.hasResult = TRUE,
                !.duration = dur, !.outcome = out, !.attachments = top.refs]
    IN  IF st.threw THEN stepU \o <<ThrowMark>>
        ELSE IF top.threw THEN stepU \o <<upsert>> \o topU \o <<ThrowMark>>
        ELSE stepU \o <<upsert>> \o topU \o <<append>>


\* ---------------------------------------------------------------- state ----
VARIABLES
    variant,          \* "cli" (allure2testit-cli.ts) or "task" (hosted task)
    dirExists,        \* fs.existsSync(args.inputDir)
    dir,              \* the *-result.json entries, in readdirSync order
    runsLeft,         \* further invocations the operator will start
    remoteRuns,       \* test runs the remote project holds: [id, name]
    remoteAutotests,  \* autotests it holds, none deleted: [id, externalId]
    attSeq,           \* attachments it holds (its last attachment id)
    pc,               \* the next remote call of runImport, or done / failed
    results,          \* Object.values(loaded.results)
    loadError,        \* what loadAllureResults threw, "" if it returned
    idx,              \* position of the for loop in results
    testRunId,        \* 0 until the run is resolved
    todo,             \* remaining calls of the current loop iteration
    calls,            \* every remote call issued so far, all invocations
    lastStatus,       \* status of the last response received
    exits             \* exit code of every finished invocation

vars == <<variant, dirExists, dir, runsLeft, remoteRuns, remoteAutotests, attSeq,
          pc, results, loadError, idx, testRunId, todo, calls, lastStatus, exits>>

inputs == <<variant, dirExists, dir>>

\* the invocation in progress, and the latest one (finished or in progress)
Invocation == Len(exits) + 1
LatestInvocation == IF pc \in {"done", "failed"} THEN Len(exits) ELSE Len(exits) + 1

\* --------------------------------------------------------------- inputs ----
Step(name, steps, atts) ==
    [name |-> name, steps |-> steps, attachments |-> atts,
     status |-> Some("passed"), start |-> Some(1), stop |-> Some(2)]

ResultFile(h, start, steps, atts) ==
    [parses |-> TRUE, historyId |-> h, start |-> start, stop |-> Some(MaxStart),
     status |-> Some("passed"), steps |-> steps, attachments |-> atts]

\* a *-result.json file JSON.parse rejects
BadFile ==
    [parses |-> FALSE, historyId |-> "", start |-> Absent, stop |-> Absent,
     status |-> Absent, steps |-> <<>>, attachments |-> <<>>]

StepNames == {"", "A", "B"}
StepAttachments == {<<>>, <<Descriptor("shot.png")>>}

\* step forests of exactly n nodes
RECURSIVE Forests(_)
Forests(n) ==
    IF n = 0 THEN {<<>>}
    ELSE UNION {
            {<<Step(nm, c, at)>> \o rest :
                nm \in StepNames, at \in StepAttachments,
                c \in Forests(k), rest \in Forests(n - 1 - k)}
            : k \in 0..(n - 1)}

ForestsUpTo(n) == UNION {Forests(k) : k \in 0..n}

LoaderFiles ==
    {BadFile} \cup {ResultFile(h, st, <<>>, <<>>) : h \in HistoryIds \ {"b"}, st \in OptNums}

AttachLists == SeqsUpTo({Descriptor(s) : s \in Sources}, MaxAttach)

RetryFiles == {ResultFile(h, Some(n), <<>>, <<>>) : h \in {"a", "b"}, n \in 0..MaxStart}

\* the directories imported into a project that already holds something:
\* none, one or two records
RemoteDirs ==
    {<<>>,
     <<ResultFile("a", Some(1), <<>>, <<>>)>>,
     <<ResultFile("a", Some(1), <<>>, <<>>), ResultFile("b", Some(1), <<>>, <<>>)>>}

RunPool ==
    {[id |-> 1, name |-> TestRunName], [id |-> 2, name |-> OtherRunName],
     [id |-> 3, name |-> TestRunName]}

AutotestPool ==
    {[id |-> 1, externalId |-> "a"], [id |-> 2, externalId |-> "a"]}

InitControl ==
    /\ attSeq = 0
    /\ pc = "start"
    /\ results = <<>>
    /\ loadError = ""
    /\ idx = 0
    /\ testRunId = 0
    /\ todo = <<>>
    /\ calls = <<>>
    /\ lastStatus = 0
    /\ exits = <<>>

\* Directories of every shape, against an empty project.
InitLoader ==
    /\ variant \in Variants
    /\ \/ dirExists = TRUE /\ dir \in SeqsUpTo(LoaderFiles, MaxFiles)
       \/ dirExists = FALSE /\ dir = <<>>
    /\ runsLeft = 0
    /\ remoteRuns = {}
    /\ remoteAutotests = {}
    /\ InitControl

\* Retried tests: three result files over two historyIds.
InitRetries ==
    /\ variant \in Variants
    /\ dirExists = TRUE
    /\ \E f1, f2, f3 \in RetryFiles : dir = <<f1, f2, f3>>
    /\ runsLeft = 0
    /\ remoteRuns = {}
    /\ remoteAutotests = {}
    /\ InitControl

\* One record with a step forest of every shape.
InitSteps ==
    /\ variant \in Variants
    /\ dirExists = TRUE
    /\ \E f \in ForestsUpTo(MaxNodes) : dir = <<ResultFile("a", Some(1), f, <<>>)>>
    /\ runsLeft = 0
    /\ remoteRuns = {}
    /\ remoteAutotests = {}
    /\ InitControl

\* One record with an attachment list of every shape, at the top level or
\* on its only step, followed by a second record.
InitAttachments ==
    /\ variant \in Variants
    /\ dirExists = TRUE
    /\ \E at \in AttachLists :
          \/ dir = <<ResultFile("a", Some(1), <<>>, at), ResultFile("b", Some(2), <<>>, <<>>)>>
          \/ dir = <<ResultFile("a", Some(1), <<Step("A", <<>>, at)>>, <<>>),
                     ResultFile("b", Some(2), <<>>, <<>>)>>
    /\ runsLeft = 0
    /\ remoteRuns = {}
    /\ remoteAutotests = {}
    /\ InitControl

\* Attachment lists that tell the levels of one record apart.
OrderLists ==
    {<<>>,
     <<Descriptor("shot.png")>>,
     <<Descriptor("log.txt"), Descriptor("shot.png")>>,
     <<Descriptor("missing.png"), Descriptor("log.txt")>>}

\* One record with attachments of its own, on two sibling steps and on the
\* child of the first.
InitOrder ==
    /\ variant \in Variants
    /\ dirExists = TRUE
    /\ \E atA, atB, atC, atT \in OrderLists :
          dir = <<ResultFile("a", Some(1),
                     <<Step("A", <<Step("B", <<>>, atB)>>, atA), Step("C", <<>>, atC)>>,
                     atT)>>
    /\ runsLeft = 0
    /\ remoteRuns = {}
    /\ remoteAutotests \in {{}, {[id |-> 1, externalId |-> "a"]}}
    /\ InitControl

\* One record and its step and the step's child, of every status.
InitStatuses ==
    /\ variant \in Variants
    /\ dirExists = TRUE
    /\ \E st, st1, st2 \in OptStatuses :
          dir = <<[ResultFile("a", Some(1),
                      <<[Step("A", <<[Step("B", <<>>, <<>>) EXCEPT !.status = st2]>>, <<>>)
                            EXCEPT !.status = st1]>>,
                      <<>>)
                   EXCEPT !.status = st]>>
    /\ runsLeft = 0
    /\ remoteRuns = {}
    /\ remoteAutotests = {}
    /\ InitControl

\* One record and its step, of every start and stop.
InitTimes ==
    /\ variant \in Variants
    /\ dirExists = TRUE
    /\ \E b, e, b1, e1 \in OptNums :
          dir = <<[ResultFile("a", b,
                      <<[Step("A", <<>>, <<>>) EXCEPT !.start = b1, !.stop = e1]>>,
                      <<>>)
                   EXCEPT !.stop = e]>>
    /\ runsLeft = 0
    /\ remoteRuns = {}
    /\ remoteAutotests = {}
    /\ InitControl

\* A project that already holds runs and autotests, and repeated invocations.
InitRemote ==
    /\ variant \in Variants
    /\ dirExists = TRUE
    /\ dir \in RemoteDirs
    /\ runsLeft \in 0..(MaxInvocations - 1)
    /\ remoteRuns \in SUBSET RunPool
    /\ remoteAutotests \in SUBSET AutotestPool
    /\ InitControl

Init ==
    \/ InitLoader
    \/ InitRetries
    \/ InitSteps
    \/ InitAttachments
    \/ InitOrder
    \/ InitStatuses
    \/ InitTimes
    \/ InitRemote

\* -------------------------------------------------------------- actions ----
\* the body a response carries: none unless the status is 2xx other than 204
Body(status, value) == IF RespOk(status) /\ status # 204 THEN Some(value) ELSE Absent

Log(c, status) ==
    Append(calls, [c EXCEPT !.inv = Invocation, !.ok = RespOk(status)])

\* main's catch block (CLI) or the unhandled rejection (task): exit code 1
Fail ==
    /\ pc' = "failed"
    /\ exits' = Append(exits, 1)
    /\ todo' = <<>>

\* runImport returned: process.exit(0)
Finish ==
    /\ pc' = "done"
    /\ exits' = Append(exits, 0)
    /\ todo' = <<>>

\* const loaded = loadAllureResults(args.inputDir)
Load ==
    /\ pc = "start"
    /\ LET loaded == loadAllureResults(variant, dirExists, dir)
       IN  /\ loadError' = loaded.error
           /\ IF loaded.threw
              THEN Fail /\ UNCHANGED results
              ELSE /\ results' = loaded.results
                   /\ pc' = "searchRun"
                   /\ UNCHANGED <<exits, todo>>
    /\ UNCHANGED <<inputs, runsLeft, remoteRuns, remoteAutotests, attSeq,
                   idx, testRunId, calls, lastStatus>>

\* entering the for loop with the run resolved
EnterLoop(n) ==
    IF n > Len(results)
    THEN Finish /\ idx' = idx
    ELSE /\ idx' = n
         /\ pc' = "searchAutotest"
         /\ todo' = <<>>
         /\ UNCHANGED exits

\* POST api/v2/testRuns/search
SearchRun ==
    /\ pc = "searchRun"
    /\ \E status \in Statuses,
          existingTestRun \in Perms({r \in remoteRuns : NameMatches(r.name, TestRunName)}) :
          /\ calls' = Log([Call("searchRun") EXCEPT
                              !.name = TestRunName,
                              !.returned = Body(status, existingTestRun)], status)
          /\ lastStatus' = status
          /\ IF invokeApi(status) # "body"
             THEN Fail /\ UNCHANGED <<idx, testRunId>>
             ELSE LET m == FindRun(existingTestRun, TestRunName)
                  IN  IF m # 0
                      THEN testRunId' = existingTestRun[m].id /\ EnterLoop(1)
                      ELSE /\ pc' = "createRun"
                           /\ UNCHANGED <<idx, testRunId, todo, exits>>
    /\ UNCHANGED <<inputs, runsLeft, remoteRuns, remoteAutotests, attSeq, results, loadError>>

\* POST api/v2/testRuns
CreateRun ==
    /\ pc = "createRun"
    /\ \E status \in Statuses :
          LET newId == MaxId(remoteRuns) + 1
          IN  /\ calls' = Log([Call("createRun") EXCEPT
                                  !.name = TestRunName,
                                  !.returned = Body(status, <<[id |-> newId, name |-> TestRunName]>>)],
                               status)
              /\ lastStatus' = status
              /\ remoteRuns' = IF RespOk(status)
                               THEN remoteRuns \cup {[id |-> newId, name |-> TestRunName]}
                               ELSE remoteRuns
              /\ IF invokeApi(status) # "body"
                 THEN Fail /\ UNCHANGED <<idx, testRunId>>
                 ELSE testRunId' = newId /\ EnterLoop(1)
    /\ UNCHANGED <<inputs, runsLeft, remoteAutotests, attSeq, results, loadError>>


\* what follows a call of the loop body that was answered successfully
Advance(rest) ==
    IF rest = <<>> THEN EnterLoop(idx + 1)
    ELSE IF Head(rest).kind = "throw" THEN Fail /\ idx' = idx
    ELSE /\ todo' = rest
         /\ pc' = "record"
         /\ UNCHANGED <<idx, exits>>

\* POST api/v2/autoTests/search
SearchAutotest ==
    /\ pc = "searchAutotest"
    /\ \E status \in Statuses,
          autotestMatches \in
              Perms({a \in remoteAutotests : a.externalId = results[idx].historyId}) :
          /\ calls' = Log([Call("searchAutotest") EXCEPT
                              !.rec = idx, !.externalId = results[idx].historyId,
                              !.returned = Body(status, autotestMatches)], status)
          /\ lastStatus' = status
          /\ IF invokeApi(status) # "body"
             THEN Fail /\ idx' = idx
             ELSE Advance(RecordPlan(variant, results[idx], idx, autotestMatches,
                                     testRunId, attSeq + 1))
    /\ UNCHANGED <<inputs, runsLeft, remoteRuns, remoteAutotests, attSeq,
                   results, loadError, testRunId>>

\* POST api/v2/attachments
UploadAttachment ==
    /\ pc = "record"
    /\ Head(todo).kind = "upload"
    /\ \E status \in Statuses :
          /\ calls' = Log([Head(todo) EXCEPT
                              !.id = IF RespOk(status) THEN attSeq + 1 ELSE 0,
                              !.returned = Body(status, <<[id |-> attSeq + 1]>>)], status)
          /\ lastStatus' = status
          /\ attSeq' = IF RespOk(status) THEN attSeq + 1 ELSE attSeq
          /\ IF invokeApiAttachementUpload(status) # "body"
             THEN Fail /\ idx' = idx
             ELSE Advance(Tail(todo))
    /\ UNCHANGED <<inputs, runsLeft, remoteRuns, remoteAutotests, results, loadError, testRunId>>

\* PUT api/v2/autoTests
UpdateAutotest ==
    /\ pc = "record"
    /\ Head(todo).kind = "updateAutotest"
    /\ \E status \in Statuses :
          /\ calls' = Log(Head(todo), status)
          /\ lastStatus' = status
          /\ IF invokeApi(status) = "throw"
             THEN Fail /\ idx' = idx
             ELSE Advance(Tail(todo))
    /\ UNCHANGED <<inputs, runsLeft, remoteRuns, remoteAutotests, attSeq,
                   results, loadError, testRunId>>

\* POST api/v2/autoTests
CreateAutotest ==
    /\ pc = "record"
    /\ Head(todo).kind = "createAutotest"
    /\ \E status \in Statuses :
          /\ calls' = Log([Head(todo) EXCEPT
                              !.id = IF RespOk(status) THEN MaxId(remoteAutotests) + 1 ELSE 0],
                          status)
          /\ lastStatus' = status
          /\ remoteAutotests' =
                IF RespOk(status)
                THEN remoteAutotests \cup
                        {[id |-> MaxId(remoteAutotests) + 1,
                          externalId |-> Head(todo).externalId]}
                ELSE remoteAutotests
          /\ IF invokeApi(status) = "throw"
             THEN Fail /\ idx' = idx
             ELSE Advance(Tail(todo))
    /\ UNCHANGED <<inputs, runsLeft, remoteRuns, attSeq, results, loadError, testRunId>>

\* POST api/v2/testRuns/{testRunId}/testResults
AppendResult ==
    /\ pc = "record"
    /\ Head(todo).kind = "appendResult"
    /\ \E status \in Statuses :
          /\ calls' = Log(Head(todo), status)
          /\ lastStatus' = status
          /\ IF invokeApi(status) = "throw"
             THEN Fail /\ idx' = idx
             ELSE Advance(Tail(todo))
    /\ UNCHANGED <<inputs, runsLeft, remoteRuns, remoteAutotests, attSeq,
                   results, loadError, testRunId>>

\* after a completed import the operator starts the tool again on the same
\* input and arguments
Reinvoke ==
    /\ pc = "done"
    /\ runsLeft > 0
    /\ runsLeft' = runsLeft - 1
    /\ pc' = "start"
    /\ results' = <<>>
    /\ loadError' = ""
    /\ idx' = 0
    /\ testRunId' = 0
    /\ todo' = <<>>
    /\ lastStatus' = 0
    /\ UNCHANGED <<inputs, remoteRuns, remoteAutotests, attSeq, calls, exits>>

Next ==
    \/ Load
    \/ SearchRun
    \/ CreateRun
    \/ SearchAutotest
    \/ UploadAttachment
    \/ UpdateAutotest
    \/ CreateAutotest
    \/ AppendResult
    \/ Reinvoke

Spec == Init /\ [][Next]_vars

TypeOK ==
    /\ pc \in {"start", "searchRun", "createRun", "searchAutotest", "record", "done", "failed"}
    /\ (pc = "record") => (todo # <<>> /\ Head(todo).kind # "throw")
    /\ idx \in 0..Len(results)


\* --------------------------------------------------------------- claims ----
\* the calls of invocation k, in the order issued
CallsOf(k) == SelectSeq(calls, LAMBDA c : c.inv = k)

\* a search answer that holds a run named exactly testRunName
HasExactRun(answer) ==
    answer # Absent /\ \E i \in 1..Len(answer[1]) : answer[1][i].name = TestRunName

\* a search answer (a body) that holds no such run
HasNoExactRun(answer) ==
    answer # Absent /\ \A i \in 1..Len(answer[1]) : answer[1][i].name # TestRunName

\* C1: in every invocation the run search is the first call and the only run
\* search; a create-run call is issued exactly when the search was answered
\* with a list holding no run named testRunName, and then as the second call
\* and only once; no per-record call precedes the resolution; every
\* append-result call targets the one resolved run id.
C1_RunResolvedOnce ==
    \A k \in 1..LatestInvocation :
        LET cs == CallsOf(k)
            createIssued == Len(cs) >= 2 /\ cs[2].kind = "createRun"
            createPending == k = LatestInvocation /\ pc = "createRun"
        IN  cs # <<>> =>
            /\ cs[1].kind = "searchRun"
            /\ \A i \in 2..Len(cs) : cs[i].kind # "searchRun"
            /\ \A i \in 1..Len(cs) : cs[i].kind = "createRun" => i = 2
            /\ (createIssued \/ createPending) <=> HasNoExactRun(cs[1].returned)
            /\ \A i \in 1..Len(cs) :
                  cs[i].rec # 0 =>
                      \/ HasExactRun(cs[1].returned)
                      \/ createIssued /\ cs[2].returned # Absent /\ i >= 3
            /\ \A i \in 1..Len(cs) :
                  cs[i].kind = "appendResult" =>
                      /\ cs[i].runId # 0
                      /\ HasExactRun(cs[1].returned) =>
                            \E j \in 1..Len(cs[1].returned[1]) :
                                /\ cs[1].returned[1][j].name = TestRunName
                                /\ cs[1].returned[1][j].id = cs[i].runId
                      /\ createIssued => cs[i].runId = cs[2].returned[1][1].id
                      /\ \A j \in 1..Len(cs) :
                            cs[j].kind = "appendResult" => cs[j].runId = cs[i].runId

\* C1 witness: a run was created although the search returned runs (none of
\* the exact name), and two results were appended to it.
C1_Witness ==
    \E k \in 1..LatestInvocation :
        LET cs == CallsOf(k)
        IN  /\ Len(cs) >= 2
            /\ cs[2].kind = "createRun"
            /\ cs[1].returned # Absent /\ Len(cs[1].returned[1]) > 0
            /\ Cardinality({i \in 1..Len(cs) : cs[i].kind = "appendResult"}) >= 2


\* a call answered with what the code needs from it: a 2xx status, and a
\* body where the code reads the body
Usable(c) ==
    /\ c.ok
    /\ c.kind \in {"searchRun", "createRun", "searchAutotest", "upload"} => c.returned # Absent

\* the calls of invocation k for record r other than attachment uploads
RecordCalls(k, r) ==
    SelectSeq(calls, LAMBDA c : c.inv = k /\ c.rec = r /\ c.kind # "upload")

\* the loader of the latest invocation returned
Loaded == pc # "start" /\ loadError = ""

\* C2: for every loaded record the calls other than uploads are, in order,
\* one autotest search, one definition call (an update keyed by the id of
\* the first match when the search returned a match, a create otherwise)
\* and one append-result call; all three are there once the invocation has
\* completed, and in the CLI whenever it ended with every call answered.
C2_SearchUpsertAppend ==
    Loaded =>
    \A r \in 1..Len(results) :
        LET rc  == RecordCalls(LatestInvocation, r)
            hid == results[r].historyId
        IN  /\ Len(rc) <= 3
            /\ Len(rc) >= 1 => rc[1].kind = "searchAutotest" /\ rc[1].externalId = hid
            /\ Len(rc) >= 2 =>
                  /\ rc[1].returned # Absent
                  /\ rc[2].externalId = hid
                  /\ IF Len(rc[1].returned[1]) >= 1
                     THEN rc[2].kind = "updateAutotest" /\ rc[2].id = rc[1].returned[1][1].id
                     ELSE rc[2].kind = "createAutotest"
            /\ Len(rc) >= 3 => rc[3].kind = "appendResult" /\ rc[3].externalId = hid
            /\ pc = "done" => Len(rc) = 3
            /\ ( /\ variant = "cli"
                 /\ pc = "failed"
                 /\ \A i \in 1..Len(calls) : Usable(calls[i]) ) => Len(rc) = 3

\* C2 witness: a completed invocation that updated one record's autotest
\* after a search with two matches and created the autotest of another.
C2_Witness ==
    /\ pc = "done"
    /\ \E r1, r2 \in 1..Len(results) :
          LET a == RecordCalls(LatestInvocation, r1)
              b == RecordCalls(LatestInvocation, r2)
          IN  /\ Len(a) = 3 /\ Len(b) = 3
              /\ a[2].kind = "updateAutotest" /\ Len(a[1].returned[1]) = 2
              /\ b[2].kind = "createAutotest"


CallKinds ==
    {"searchRun", "createRun", "searchAutotest", "updateAutotest", "createAutotest",
     "upload", "appendResult"}

InitialRuns ==
    {r \in remoteRuns :
        ~\E i \in 1..Len(calls) :
            /\ calls[i].kind = "createRun"
            /\ calls[i].returned # Absent
            /\ calls[i].returned[1][1].id = r.id}

InitialAutotests ==
    {a \in remoteAutotests :
        ~\E i \in 1..Len(calls) :
            calls[i].kind = "createAutotest" /\ calls[i].ok /\ calls[i].id = a.id}

AllSucceeded == pc = "done" /\ \A k \in 1..Len(exits) : exits[k] = 0

\* C4: against a remote that stores what is created and answers searches
\* with every stored match, and that held at most one run of the name and at
\* most one autotest per historyId to begin with, after any number of
\* successful invocations on the same input the remote holds exactly one run
\* named testRunName and exactly one autotest per loaded historyId, and the
\* invocations after the first issued no create-run and no create-autotest.
C4_IdempotentUpserts ==
    ( /\ AllSucceeded
      /\ Cardinality({r \in InitialRuns : r.name = TestRunName}) <= 1
      /\ \A a, b \in InitialAutotests : a.externalId = b.externalId => a = b )
    =>
    /\ Cardinality({r \in remoteRuns : r.name = TestRunName}) = 1
    /\ \A r \in 1..Len(results) :
          Cardinality({a \in remoteAutotests : a.externalId = results[r].historyId}) = 1
    /\ \A i \in 1..Len(calls) :
          calls[i].inv >= 2 => calls[i].kind \notin {"createRun", "createAutotest"}

\* C4 witness: two successful invocations on two records; the first created
\* the run and an autotest, the second updated that autotest.
C4_Witness ==
    /\ AllSucceeded
    /\ Len(exits) = MaxInvocations
    /\ Len(results) = 2
    /\ \E i, j, k \in 1..Len(calls) :
          /\ calls[i].kind = "createRun" /\ calls[i].inv = 1
          /\ calls[j].kind = "createAutotest" /\ calls[j].inv = 1
          /\ calls[k].kind = "updateAutotest" /\ calls[k].inv = 2
          /\ calls[k].externalId = calls[j].externalId


\* the steps of a sequence that have a non-empty name, in their order
NamedSteps(steps) == SelectSeq(steps, LAMBDA s : s.name # "")

\* descriptors whose file exists with at least one byte
Survivors(atts) == SelectSeq(atts, LAMBDA a : Disk[a.source] = "data")

\* out (step specs, children under .steps) has one entry per named step of
\* steps, titled by its name, and so on below every named step
RECURSIVE MirrorsSpecs(_, _)
MirrorsSpecs(out, steps) ==
    LET named == NamedSteps(steps)
    IN  /\ Len(out) = Len(named)
        /\ \A i \in 1..Len(named) :
              /\ out[i].title = named[i].name
              /\ MirrorsSpecs(out[i].steps, named[i].steps)

\* the same for step results (children under .stepResults)
RECURSIVE MirrorsResults(_, _)
MirrorsResults(out, steps) ==
    LET named == NamedSteps(steps)
    IN  /\ Len(out) = Len(named)
        /\ \A i \in 1..Len(named) :
              /\ out[i].title = named[i].name
              /\ MirrorsResults(out[i].stepResults, named[i].steps)

\* surviving descriptors on the named steps reachable through named steps
RECURSIVE ReachableUploads(_)
ReachableUploads(steps) ==
    LET named == NamedSteps(steps)
    IN  SumSeq([i \in 1..Len(named) |->
                   Len(Survivors(named[i].attachments)) + ReachableUploads(named[i].steps)])

StepUploads(k, r) ==
    SelectSeq(calls, LAMBDA c : c.inv = k /\ c.rec = r /\ c.kind = "upload" /\ c.level = "step")

\* C5: the step specs and the step results sent for a record have one entry
\* per named step of the record, titled by its name in the original order,
\* recursively under every named step (so both have the same length at every
\* level); by the time the autotest is upserted the step uploads are exactly
\* as many as the surviving descriptors of the named steps reachable through
\* named steps: nothing was uploaded for an unnamed step or below it.
C5_StepTranslation ==
    Loaded =>
    \A i \in 1..Len(calls) :
        LET c == calls[i]
        IN  (c.inv = LatestInvocation /\ c.rec # 0) =>
            LET steps == results[c.rec].steps
            IN  /\ c.kind \in {"updateAutotest", "createAutotest"} =>
                      /\ MirrorsSpecs(c.steps, steps)
                      /\ Len(StepUploads(c.inv, c.rec)) = ReachableUploads(steps)
                /\ c.hasResult => MirrorsResults(c.stepResults, steps)
                /\ c.kind = "createAutotest" => Len(c.steps) = Len(c.stepResults)

\* C5 witness: an autotest was created and its result appended for a record
\* whose unnamed step carries an attachment and a named child.
C5_Witness ==
    \E i, j \in 1..Len(calls) :
        /\ calls[i].inv = LatestInvocation /\ calls[j].inv = LatestInvocation
        /\ calls[i].kind = "createAutotest" /\ calls[j].kind = "appendResult"
        /\ calls[i].rec = calls[j].rec
        /\ \E n \in 1..Len(results[calls[i].rec].steps) :
              LET s == results[calls[i].rec].steps[n]
              IN  /\ s.name = ""
                  /\ s.attachments # <<>>
                  /\ s.steps # <<>>
                  /\ s.steps[1].name # ""


TopUploads(k, r) ==
    SelectSeq(calls, LAMBDA c : c.inv = k /\ c.rec = r /\ c.kind = "upload" /\ c.level = "top")

\* uploads are the upload calls issued so far for the descriptor list atts:
\* one per surviving descriptor, in the order of the descriptors
UploadsFollow(uploads, atts) ==
    LET alive == Survivors(atts)
    IN  /\ Len(uploads) <= Len(alive)
        /\ \A i \in 1..Len(uploads) : uploads[i].source = alive[i].source

\* refs is the list returned for atts: one reference per surviving
\* descriptor, the i-th being the id the i-th upload call was answered with
RefsFollow(refs, uploads, atts) ==
    /\ Len(refs) = Len(Survivors(atts))
    /\ Len(uploads) = Len(refs)
    /\ \A i \in 1..Len(refs) :
          uploads[i].returned # Absent /\ refs[i].id = uploads[i].returned[1][1].id

\* a record whose steps are one named step without children
SingleStep(rec) ==
    Len(rec.steps) = 1 /\ rec.steps[1].name # "" /\ rec.steps[1].steps = <<>>

\* C6: in the CLI the upload calls issued for a descriptor list are one per
\* descriptor whose file exists and is non-empty, in the order of those
\* descriptors, never one for a missing or zero-byte file; the list returned
\* (sent as the attachments of the result, or of the step result) holds
\* exactly the references those calls were answered with, in the same order.
C6_UploadSurvivors ==
    (variant = "cli" /\ Loaded) =>
    \A r \in 1..Len(results) :
        LET rec == results[r]
            k   == LatestInvocation
        IN  /\ UploadsFollow(TopUploads(k, r), rec.attachments)
            /\ SingleStep(rec) => UploadsFollow(StepUploads(k, r), rec.steps[1].attachments)
            /\ \A i \in 1..Len(calls) :
                  LET c == calls[i]
                  IN  (c.inv = k /\ c.rec = r) =>
                      /\ c.kind = "appendResult" =>
                            RefsFollow(c.attachments, TopUploads(k, r), rec.attachments)
                      /\ (c.hasResult /\ SingleStep(rec)) =>
                            RefsFollow(c.stepResults[1].attachments, StepUploads(k, r),
                                       rec.steps[1].attachments)

\* C6 witness: a result was appended in the CLI for a list of MaxAttach
\* descriptors that starts with a zero-byte file and holds a missing file
\* and a surviving one.
C6_Witness ==
    /\ variant = "cli"
    /\ \E i \in 1..Len(calls) :
          LET c == calls[i]
          IN  /\ c.kind = "appendResult" /\ c.inv = LatestInvocation
              /\ LET atts == results[c.rec].attachments
                 IN  /\ Len(atts) = MaxAttach
                     /\ Disk[atts[1].source] = "empty"
                     /\ \E n \in 1..Len(atts) : Disk[atts[n].source] = "missing"
                     /\ Len(c.attachments) = 1

\* C7 (the claim as stated, for both variants): a descriptor whose file is
\* missing never ends an invocation.  Whenever an invocation has ended with
\* every remote call answered, every loaded record has its result appended
\* with one reference per surviving top-level descriptor.
C7_MissingFileNonFatal ==
    ( /\ Loaded
      /\ pc \in {"done", "failed"}
      /\ \A i \in 1..Len(calls) : Usable(calls[i]) )
    =>
    \A r \in 1..Len(results) :
        \E i \in 1..Len(calls) :
            /\ calls[i].inv = LatestInvocation
            /\ calls[i].rec = r
            /\ calls[i].kind = "appendResult"
            /\ Len(calls[i].attachments) = Len(Survivors(results[r].attachments))


\* the files JSON.parse accepts, in enumeration order
Parsed == SelectSeq(dir, LAMBDA f : f.parses)

\* file j is the one kept for its historyId: every other parsed file of that
\* historyId has a smaller start, or the same start and an earlier position
Wins(j) ==
    \A n \in 1..Len(Parsed) :
        (n # j /\ Parsed[n].historyId = Parsed[j].historyId) =>
            \/ OrZero(Parsed[n].start) < OrZero(Parsed[j].start)
            \/ OrZero(Parsed[n].start) = OrZero(Parsed[j].start) /\ n < j

\* C8: the loader yields exactly one record per distinct historyId of the
\* parsed files, and the record kept for a historyId is the file that is
\* last by ascending start (absent start as 0), the later-enumerated file
\* among equal starts.
C8_LastByStartWins ==
    Loaded =>
    /\ \A i, j \in 1..Len(results) : results[i].historyId = results[j].historyId => i = j
    /\ {results[i].historyId : i \in 1..Len(results)} =
       {Parsed[j].historyId : j \in 1..Len(Parsed)}
    /\ \A i \in 1..Len(results) :
          \E j \in 1..Len(Parsed) : Wins(j) /\ results[i] = Parsed[j]

\* C8 witness: two files of one historyId whose starts are 0 and absent, in
\* that order, were loaded into one record.
C8_Witness ==
    /\ Loaded
    /\ Len(dir) = 2
    /\ dir[1].parses /\ dir[2].parses
    /\ dir[1].historyId = dir[2].historyId
    /\ dir[1].start = Some(0) /\ dir[2].start = Absent
    /\ results = <<dir[2]>>

\* C9 (the claim as stated): records are processed in ascending order of
\* start: of two autotest searches of an invocation the earlier one is for a
\* record whose start (absent as 0) is not greater.
C9_ProcessedInStartOrder ==
    Loaded =>
    \A i, j \in 1..Len(calls) :
        ( /\ i < j
          /\ calls[i].inv = LatestInvocation /\ calls[j].inv = LatestInvocation
          /\ calls[i].kind = "searchAutotest" /\ calls[j].kind = "searchAutotest" )
        => OrZero(results[calls[i].rec].start) <= OrZero(results[calls[j].rec].start)

\* C10 (the claim as stated, for both variants): the loader fails exactly
\* when the directory does not exist or, in the CLI, when no file parses; a
\* failed load is followed by no remote call; a load that did not fail has
\* loaded every file that parses.
C10_ParseFailureNonFatal ==
    pc # "start" =>
    /\ loadError # "" <=> (~dirExists \/ (variant = "cli" /\ Parsed = <<>>))
    /\ loadError # "" => CallsOf(LatestInvocation) = <<>>
    /\ loadError = "" =>
          {results[i].historyId : i \in 1..Len(results)} =
          {Parsed[j].historyId : j \in 1..Len(Parsed)}


Outcomes == {"Passed", "Skipped", "Failed", "Blocked"}

\* the fixed table: absent is Blocked, "passed" is Passed, "skipped" is
\* Skipped, every other value is Failed
OutcomeTable(status) ==
    CASE status = Absent          -> "Blocked"
      [] status = Some("passed")  -> "Passed"
      [] status = Some("skipped") -> "Skipped"
      [] OTHER                    -> "Failed"

\* every step result carries the table's outcome for its step, at every level
RECURSIVE OutcomesFollow(_, _)
OutcomesFollow(out, steps) ==
    LET named == NamedSteps(steps)
    IN  /\ Len(out) = Len(named)
        /\ \A i \in 1..Len(named) :
              /\ out[i].outcome = OutcomeTable(named[i].status)
              /\ OutcomesFollow(out[i].stepResults, named[i].steps)

\* C11: the outcome sent for a record (create-autotest and append-result
\* payloads) and for every step result under it is one of Passed, Skipped,
\* Failed, Blocked and is the one the table gives for the status: Blocked
\* for an absent status, Passed for "passed", Skipped for "skipped", Failed
\* for every other value.
C11_StatusMapping ==
    Loaded =>
    \A i \in 1..Len(calls) :
        LET c == calls[i]
        IN  (c.inv = LatestInvocation /\ c.hasResult) =>
            /\ c.outcome \in Outcomes
            /\ c.outcome = OutcomeTable(results[c.rec].status)
            /\ OutcomesFollow(c.stepResults, results[c.rec].steps)

\* C11 witness: a result was appended for a record without a status whose
\* step is "broken" and whose step's child has an unrecognized status.
C11_Witness ==
    \E i \in 1..Len(calls) :
        LET c == calls[i]
        IN  /\ c.inv = LatestInvocation /\ c.kind = "appendResult"
            /\ results[c.rec].status = Absent
            /\ c.outcome = "Blocked"
            /\ Len(c.stepResults) = 1
            /\ results[c.rec].steps[1].status = Some("broken")
            /\ c.stepResults[1].outcome = "Failed"
            /\ Len(c.stepResults[1].stepResults) = 1
            /\ results[c.rec].steps[1].steps[1].status = Some("weird-string")
            /\ c.stepResults[1].stepResults[1].outcome = "Failed"


\* the duration of the claim: 0 when start or stop is absent or zero,
\* stop - start otherwise
DurationTable(start, stop) ==
    IF start = Absent \/ stop = Absent THEN 0
    ELSE IF start[1] = 0 \/ stop[1] = 0 THEN 0
    ELSE stop[1] - start[1]

\* every step result carries the table's duration for its step, at every level
RECURSIVE DurationsFollow(_, _)
DurationsFollow(out, steps) ==
    LET named == NamedSteps(steps)
    IN  /\ Len(out) = Len(named)
        /\ \A i \in 1..Len(named) :
              /\ out[i].duration = DurationTable(named[i].start, named[i].stop)
              /\ DurationsFollow(out[i].stepResults, named[i].steps)

\* C12: the duration sent for a record (create-autotest and append-result
\* payloads) and for every step result is 0 when start or stop is absent or
\* zero and stop - start otherwise, negative when stop precedes start; the
\* create and the append payload of one record carry the same duration.
C12_Duration ==
    Loaded =>
    /\ \A i \in 1..Len(calls) :
          LET c == calls[i]
          IN  (c.inv = LatestInvocation /\ c.hasResult) =>
              /\ c.duration = DurationTable(results[c.rec].start, results[c.rec].stop)
              /\ DurationsFollow(c.stepResults, results[c.rec].steps)
    /\ \A i, j \in 1..Len(calls) :
          (/\ calls[i].inv = calls[j].inv /\ calls[i].rec = calls[j].rec
           /\ calls[i].kind = "createAutotest" /\ calls[j].kind = "appendResult")
          => calls[i].duration = calls[j].duration

\* C12 witness: an autotest was created and a result appended for a record
\* that stops before it starts, with a step that has a start of zero: both
\* payloads carry the negative duration and the step a duration of 0.
C12_Witness ==
    \E i, j \in 1..Len(calls) :
        LET c == calls[i]
            a == calls[j]
            t == results[a.rec]
        IN  /\ c.inv = LatestInvocation /\ a.inv = LatestInvocation
            /\ c.kind = "createAutotest" /\ a.kind = "appendResult"
            /\ c.rec = a.rec
            /\ TruthyNum(t.start) /\ TruthyNum(t.stop) /\ t.stop[1] < t.start[1]
            /\ c.duration < 0 /\ a.duration = c.duration
            /\ Len(a.stepResults) = 1
            /\ t.steps[1].start = Some(0) /\ TruthyNum(t.steps[1].stop)
            /\ a.stepResults[1].duration = 0


\* every remote call of record r in invocation k, uploads included
AllRecordCalls(k, r) == SelectSeq(calls, LAMBDA c : c.inv = k /\ c.rec = r)

Upserts == {"updateAutotest", "createAutotest"}

\* what the order is about: the kind of a call, and for an upload its file
\* and its level
Tag(c) ==
    [kind   |-> IF c.kind \in Upserts THEN "upsert" ELSE c.kind,
     source |-> c.source,
     level  |-> c.level]

Tags(cs) == [i \in 1..Len(cs) |-> Tag(cs[i])]

UploadTags(atts, level) ==
    LET live == Survivors(atts)
    IN  [i \in 1..Len(live) |->
            [kind |-> "upload", source |-> live[i].source, level |-> level]]

\* the uploads of a step forest in post-order: a step's descendants, then
\* the step itself, then its later siblings
RECURSIVE PostOrder(_)
PostOrder(steps) ==
    IF steps = <<>> THEN <<>>
    ELSE LET s == Head(steps)
         IN  (IF s.name = "" THEN <<>>
              ELSE PostOrder(s.steps) \o UploadTags(s.attachments, "step"))
             \o PostOrder(Tail(steps))

Plain(kind) == [kind |-> kind, source |-> "", level |-> ""]

ExpectedOrder(t) ==
    <<Plain("searchAutotest")>> \o PostOrder(t.steps) \o <<Plain("upsert")>>
        \o UploadTags(t.attachments, "top") \o <<Plain("appendResult")>>

IsPrefix(p, q) == Len(p) <= Len(q) /\ \A i \in 1..Len(p) : p[i] = q[i]

\* the ids of the attachment references of a step result forest, children first
RECURSIVE StepRefIds(_)
StepRefIds(out) ==
    IF out = <<>> THEN <<>>
    ELSE StepRefIds(Head(out).stepResults)
         \o [i \in 1..Len(Head(out).attachments) |-> Head(out).attachments[i].id]
         \o StepRefIds(Tail(out))

ReturnedIds(uploads) == [i \in 1..Len(uploads) |-> uploads[i].id]

\* C13: the remote calls of one record are an initial part of: the autotest
\* search, the step uploads in post-order, the update or create, the
\* top-level uploads in declaration order, the append. After a failed step
\* upload the record has no upsert and no result; after a failed top-level
\* upload it has its upsert and no result. Every reference sent with the
\* create and with the append comes from exactly one upload of the record.
C13_CallOrder ==
    Loaded =>
    \A r \in 1..Len(results) :
        LET k  == LatestInvocation
            cs == AllRecordCalls(k, r)
        IN  /\ IsPrefix(Tags(cs), ExpectedOrder(results[r]))
            /\ \A i \in 1..Len(cs) :
                  (cs[i].kind = "upload" /\ ~Usable(cs[i])) =>
                      /\ \A j \in 1..Len(cs) : cs[j].kind # "appendResult"
                      /\ cs[i].level = "step" =>
                            \A j \in 1..Len(cs) : cs[j].kind \notin Upserts
                      /\ cs[i].level = "top" =>
                            \E j \in 1..(i - 1) : cs[j].kind \in Upserts
            /\ \A i, j \in 1..Len(cs) :
                  (cs[i].kind = "createAutotest" /\ cs[j].kind = "appendResult")
                      => cs[i].stepResults = cs[j].stepResults
            /\ \A j \in 1..Len(cs) :
                  cs[j].kind = "appendResult" =>
                      /\ ReturnedIds(StepUploads(k, r)) = StepRefIds(cs[j].stepResults)
                      /\ ReturnedIds(TopUploads(k, r))
                            = [i \in 1..Len(cs[j].attachments) |-> cs[j].attachments[i].id]
                      /\ \A a, b \in 1..Len(cs) :
                            (cs[a].kind = "upload" /\ cs[b].kind = "upload" /\ a # b)
                                => cs[a].id # cs[b].id

\* C13 witness: a record whose step, step's child and top level each have a
\* surviving attachment was created and appended, the child's upload first,
\* and its step references went out with both payloads.
C13_Witness ==
    \E r \in 1..Len(results) :
        LET cs == AllRecordCalls(LatestInvocation, r)
            t  == results[r]
        IN  /\ Len(t.steps) = 2
            /\ Len(t.steps[1].steps) = 1
            /\ Survivors(t.steps[1].attachments) = <<Descriptor("shot.png")>>
            /\ Survivors(t.steps[1].steps[1].attachments) = <<Descriptor("log.txt")>>
            /\ Survivors(t.attachments) # <<>>
            /\ Len(cs) >= 6
            /\ cs[2].kind = "upload" /\ cs[2].source = "log.txt"
            /\ cs[3].kind = "upload" /\ cs[3].source = "shot.png"
            /\ cs[Len(cs)].kind = "appendResult"
            /\ \E i \in 1..Len(cs) :
                  cs[i].kind = "createAutotest" /\ StepRefIds(cs[i].stepResults) # <<>>

====
